---- MODULE Spec2Model ----
(***************************************************************************)
(* Model of the hexapod visualizer's telemetry pipeline:                   *)
(*   src/visualizer.py  HexapodState, HexapodVisualizer                    *)
(*   src/main.py        SerialReader (connect / read_and_parse /           *)
(*                      disconnect)                                        *)
(* One producer thread (_serial_reader_thread) reads records from the      *)
(* serial transport and enqueues them on a bounded queue; the GUI thread   *)
(* runs the consumer (_update_plot) which drains the queue into            *)
(* HexapodState.                                                            *)
(***************************************************************************)
EXTENDS Integers, Sequences, FiniteSets, TLC

(***************************************************************************)
(* Bounds of the model.                                                    *)
(***************************************************************************)
\* queue.Queue(maxsize=100) in the source; the model scales the capacity down.
QueueCap == 3
\* number of records the device delivers before it only times out
MaxParsed == 4
\* number of producer threads that start_visualization may create
MaxThreads == 2
\* number of update_leg calls in the specification of HexapodState alone
MaxMerges == 3
\* largest reading of the wall clock
MaxClock == 2
\* largest joint angle, rotation about Z included, in quarter turns
MaxTurn == 2

Threads == 1..MaxThreads

(***************************************************************************)
(* Data: LegData (src/main.py) and the values it carries.                  *)
(***************************************************************************)
V1 == <<1, 0, 0>>
V2 == <<0, 2, 0>>

LegData(leg, ts, body, legxyz, ang) ==
    [leg_number |-> leg, timestamp |-> ts, body_xyz |-> body,
     leg_xyz |-> legxyz, leg_angles |-> ang]

\* the records the device sends in the pipeline specifications
WireRecords ==
    { LegData(0, 7, V1, V1, V1), LegData(1, 8, V2, V1, V2) }

\* the records merged in the specification of HexapodState alone
MergeRecords ==
    { LegData(leg, 7, b, l, a) : leg \in {0, 1}, b \in {V1, V2}, l \in {V1, V2}, a \in {V1, V2} }

NoData == [leg_number |-> -1]
NoItem == [seq |-> 0, data |-> NoData]

VARIABLES
    running,        \* HexapodVisualizer.running
    data_queue,     \* HexapodVisualizer.data_queue: sequence of [seq, data]
    state,          \* HexapodVisualizer.state: HexapodState
    now,            \* the wall clock, time.time()
    mainpc,         \* position of the caller of start_visualization
    windowOpen,     \* the matplotlib figure is open
    animActive,     \* the FuncAnimation timer is running
    nthreads,       \* number of producer threads started so far
    pc,             \* pc[t]: position of producer thread t
    held,           \* held[t]: the local leg_data of producer thread t
    conn,           \* conn[t]: reader.serial_conn of thread t: none, open, closed
    closes,         \* closes[t]: number of serial_conn.close() calls of thread t
    cpc,            \* position of the consumer inside _update_plot
    \* history variables
    nparsed,        \* number of records parsed so far (the last sequence number)
    merged,         \* the items passed to update_leg, in order
    evicted,        \* sequence numbers removed from the queue by a producer
    failed,         \* failed[t]: a read of thread t raised serial.SerialException
    readsAfterStop, \* readsAfterStop[t]: reads of t begun with running = False
    everStopped,    \* running went from True to False
    sinceDeq,       \* sequence numbers whose enqueue completed since the last consumer dequeue
    cleanBase,      \* the last consumer dequeue did not fall inside an overflow handling
    tickStart,      \* the queue's sequence numbers when the current _update_plot began
    tickBase,       \* Len(merged) when the current _update_plot began
    prevState,      \* the state before the last update_leg
    \* configuration and rendering
    config,         \* HexapodVisualizer.config: joint display flag and leg geometry
    chainLegs,      \* the legs whose joint chain the last _draw_legs computed
    \* demo mode (src/demo.py)
    mode,           \* "live": HexapodVisualizer; "demo": DemoVisualizer with HexapodDemo
    demo_running,   \* HexapodDemo.running
    dpc,            \* position of the demo simulation thread
    dleg,           \* leg_id of the simulation thread's `for leg_id in range(6)`
    \* the line level of the producer (src/main.py)
    line,           \* the line last returned by readline().decode()
    result,         \* what parse_line returned for it
    reports,        \* number of "Error parsing line" messages printed
    nreads,         \* number of lines read so far
    seen,           \* history: the << line, result >> pairs of the parse_line calls
    \* the joint chain computation on its own
    geom,           \* the geometry of one leg
    angles,         \* raw joint angles of that leg
    chain,          \* the joint chain computed for them
    \* the status line
    active_legs,    \* n of "Active Legs: n/6" in the title last set by _update_plot
    \* loading the configuration
    config_data,    \* the configuration as the YAML file gives it (yaml.safe_load)
    loaded,         \* what ConfigLoader.load_config made of it
    lookup          \* the last get_leg_config call and its outcome

demoVars == << mode, demo_running, dpc, dleg >>

lineVars == << line, result, reports, nreads, seen >>

solveVars == << geom, angles, chain >>

loadVars == << config_data, loaded, lookup >>

vars == << running, data_queue, state, now, mainpc, windowOpen, animActive, nthreads,
           pc, held, conn, closes, cpc, nparsed, merged, evicted, failed,
           readsAfterStop, everStopped, sinceDeq, cleanBase, tickStart, tickBase,
           prevState, config, chainLegs, demoVars, lineVars, solveVars,
           active_legs, loadVars >>

(***************************************************************************)
(* HexapodState (src/visualizer.py:21-34).  A dict is a function whose     *)
(* domain is its key set.                                                  *)
(***************************************************************************)
EmptyDict == [k \in {} |-> 0]

DictSet(d, key, v) ==
    [k \in (DOMAIN d) \cup {key} |-> IF k = key THEN v ELSE d[k]]

EmptyState ==
    [timestamp |-> 0, leg_positions |-> EmptyDict, leg_targets |-> EmptyDict,
     leg_angles |-> EmptyDict]

\* a merge that adds the new sample to the stored one
update_leg_accumulates(s, leg_data, t) ==
    LET k == leg_data.leg_number
        mix(d, v) == IF k \in DOMAIN d
                        THEN [i \in 1..3 |-> d[k][i] + v[i]]
                        ELSE v
    IN  [timestamp     |-> t,
         leg_positions |-> DictSet(s.leg_positions, k, mix(s.leg_positions, leg_data.body_xyz)),
         leg_targets   |-> DictSet(s.leg_targets, k, mix(s.leg_targets, leg_data.leg_xyz)),
         leg_angles    |-> DictSet(s.leg_angles, k, mix(s.leg_angles, leg_data.leg_angles))]

\* a merge that keeps the joint angles of a leg it already knows
update_leg_keeps_angles(s, leg_data, t) ==
    LET k == leg_data.leg_number
    IN  [timestamp     |-> t,
         leg_positions |-> DictSet(s.leg_positions, k, leg_data.body_xyz),
         leg_targets   |-> DictSet(s.leg_targets, k, leg_data.leg_xyz),
         leg_angles    |-> IF k \in DOMAIN s.leg_angles
                              THEN s.leg_angles
                              ELSE DictSet(s.leg_angles, k, leg_data.leg_angles)]

\* a merge that does not store the leg target
update_leg_without_targets(s, leg_data, t) ==
    [timestamp     |-> t,
     leg_positions |-> DictSet(s.leg_positions, leg_data.leg_number, leg_data.body_xyz),
     leg_targets   |-> s.leg_targets,
     leg_angles    |-> DictSet(s.leg_angles, leg_data.leg_number, leg_data.leg_angles)]

\* a merge that forgets the legs it is not given
update_leg_forgets_others(s, leg_data, t) ==
    [timestamp     |-> t,
     leg_positions |-> DictSet(EmptyDict, leg_data.leg_number, leg_data.body_xyz),
     leg_targets   |-> DictSet(EmptyDict, leg_data.leg_number, leg_data.leg_xyz),
     leg_angles    |-> DictSet(EmptyDict, leg_data.leg_number, leg_data.leg_angles)]

update_leg(s, leg_data, t) ==
    [timestamp     |-> t,
     leg_positions |-> DictSet(s.leg_positions, leg_data.leg_number, leg_data.body_xyz),
     leg_targets   |-> DictSet(s.leg_targets, leg_data.leg_number, leg_data.leg_xyz),
     leg_angles    |-> DictSet(s.leg_angles, leg_data.leg_number, leg_data.leg_angles)]

\* the wall-clock "last updated" marker the state keeps: HexapodState has the one
\* field `timestamp`, whichever leg is asked about
LastUpdated(s, leg) == s.timestamp

\* what the renderer reads of the state: the three maps (timestamp is never read)
Observable(s) == << s.leg_positions, s.leg_targets, s.leg_angles >>

(***************************************************************************)
(* queue.Queue (bounded FIFO): put_nowait / get_nowait / empty.            *)
(***************************************************************************)
Full(q) == Len(q) >= QueueCap

Tags(q) == [i \in 1..Len(q) |-> q[i].seq]

Range(f) == { f[i] : i \in DOMAIN f }

LastN(n, s) == IF Len(s) <= n THEN s ELSE SubSeq(s, Len(s) - n + 1, Len(s))

(***************************************************************************)
(* Configuration (src/config_loader.py): what the visualizer reads of it.  *)
(* A leg's link_lengths is << >> when the configuration gives none.        *)
(* Angles are in quarter turns, lengths and coordinates in grid units.     *)
(***************************************************************************)
\* `for i in range(6)`: the legs the renderer draws
NumLegs == 6

LegIds == 0..(NumLegs - 1)

LegGeometry(position, rotation, link_lengths, joint_angle_offsets) ==
    [position |-> position, rotation |-> rotation, link_lengths |-> link_lengths,
     joint_angle_offsets |-> joint_angle_offsets]

DefaultGeometry == LegGeometry(<< 1, 1, 0 >>, 0, << 1, 2, 3 >>, << 0, 0, 0 >>)

\* a validated configuration: six legs 0..5, joint display on
DefaultConfig == [show_joints |-> TRUE, legs |-> [i \in LegIds |-> DefaultGeometry]]

\* a render pass that computes the chain whether or not joints are shown
ChainLegsAlways(cfg, s) ==
    { i \in LegIds : /\ cfg.legs[i].link_lengths # << >>
                     /\ i \in DOMAIN s.leg_angles
                     /\ s.leg_angles[i] # << >> }

\* _draw_legs: the legs for which the joint chain is computed in a render pass
\* (`if show_joints`, `if link_lengths and leg_angles`)
ChainLegs(cfg, s) ==
    IF cfg.show_joints
       THEN { i \in LegIds : /\ cfg.legs[i].link_lengths # << >>
                             /\ i \in DOMAIN s.leg_angles
                             /\ s.leg_angles[i] # << >> }
       ELSE {}

\* no line read yet
NoLine == [kind |-> "none"]

(***************************************************************************)
(* The joint chain of one leg (src/visualizer.py:299-337).  Angles are     *)
(* whole quarter turns, for which sine and cosine are exact.               *)
(***************************************************************************)
\* math.cos, math.sin
Cos(a) == CASE a % 4 = 0 -> 1
            [] a % 4 = 1 -> 0
            [] a % 4 = 2 -> -1
            [] a % 4 = 3 -> 0

Sin(a) == CASE a % 4 = 0 -> 0
            [] a % 4 = 1 -> 1
            [] a % 4 = 2 -> 0
            [] a % 4 = 3 -> -1

\* two lengths (legacy) are femur and tibia with a zero-length coxa
NormalizedLinks(link_lengths) ==
    IF Len(link_lengths) = 2
       THEN << 0, link_lengths[1], link_lengths[2] >>
       ELSE SubSeq(link_lengths, 1, 3)

\* effective = raw - offset
effective(raw, offset) == raw - offset

\* a tibia that hangs a quarter turn below the femur when both angles are zero
total_pitch_droops(femur_angle, tibia_angle) == femur_angle + tibia_angle - 1

tibia_pitch_alone(femur_angle, tibia_angle) == tibia_angle

total_pitch(femur_angle, tibia_angle) == femur_angle + tibia_angle

joint_chain(g, leg_angles) ==
    LET links       == NormalizedLinks(g.link_lengths)
        coxa_len    == links[1]
        femur_len   == links[2]
        tibia_len   == links[3]
        coxa_angle  == effective(leg_angles[1], g.joint_angle_offsets[1])
        femur_angle == effective(leg_angles[2], g.joint_angle_offsets[2])
        tibia_angle == effective(leg_angles[3], g.joint_angle_offsets[3])
        base_x      == g.position[1]
        base_y      == g.position[2]
        base_z      == g.position[3]
        cosr        == Cos(g.rotation)
        sinr        == Sin(g.rotation)
        cosc        == Cos(coxa_angle)
        sinc        == Sin(coxa_angle)
        dir_x       == cosr * cosc - sinr * sinc
        dir_y       == cosr * sinc + sinr * cosc
        coxa_end    == << base_x + dir_x * coxa_len, base_y + dir_y * coxa_len, base_z >>
        femur_dx    == femur_len * Cos(femur_angle) * dir_x
        femur_dy    == femur_len * Cos(femur_angle) * dir_y
        femur_dz    == femur_len * Sin(femur_angle)
        femur_end   == << coxa_end[1] + femur_dx, coxa_end[2] + femur_dy,
                          coxa_end[3] + femur_dz >>
        pitch       == total_pitch(femur_angle, tibia_angle)
        tibia_dx    == tibia_len * Cos(pitch) * dir_x
        tibia_dy    == tibia_len * Cos(pitch) * dir_y
        tibia_dz    == tibia_len * Sin(pitch)
        tibia_end   == << femur_end[1] + tibia_dx, femur_end[2] + tibia_dy,
                          femur_end[3] + tibia_dz >>
    IN  [coxa_end |-> coxa_end, femur_end |-> femur_end, tibia_end |-> tibia_end]

(***************************************************************************)
(* The wire format and HexapodParser (src/main.py:29-93).                  *)
(* A line is modelled by its parts: the characters before the record       *)
(* skeleton (lead), whether the literal skeleton                           *)
(*   I (f1) wbc: (f2)Leg f3 IK: BodyXYZ(f4, f5, f6) -> LegXYZ(f7, f8, f9)  *)
(*     -> LegAng(f10, f11, f12)                                            *)
(* is present (skel), the texts f1..f12 standing in its twelve places      *)
(* (fields), and the characters after the last parenthesis (tail).  A      *)
(* line without skeleton is the free text lead \o tail.  Texts are         *)
(* sequences of one-character strings.  A float is carried as a whole      *)
(* number of thousandths; no field of the model has more than three        *)
(* decimals.                                                               *)
(***************************************************************************)
\* sys.int_max_str_digits (4300 in CPython 3.11 and later), scaled down: int()
\* raises ValueError for a digit string longer than this
IntMaxStrDigits == 8

Digits == << "0", "1", "2", "3", "4", "5", "6", "7", "8", "9" >>

IsDigit(c) == \E i \in 1..10 : Digits[i] = c

DigitVal(c) == (CHOOSE i \in 1..10 : Digits[i] = c) - 1

Whitespace == { " ", "\n", "\t" }

RECURSIVE StripLeft(_)
StripLeft(cs) ==
    IF cs # << >> /\ Head(cs) \in Whitespace THEN StripLeft(Tail(cs)) ELSE cs

RECURSIVE StripRight(_)
StripRight(cs) ==
    IF cs # << >> /\ cs[Len(cs)] \in Whitespace
       THEN StripRight(SubSeq(cs, 1, Len(cs) - 1))
       ELSE cs

\* line.strip()
LineStrip(l) ==
    IF l.skel
       THEN [l EXCEPT !.lead = StripLeft(l.lead), !.tail = StripRight(l.tail)]
       ELSE [l EXCEPT !.lead = StripRight(StripLeft(l.lead \o l.tail)), !.tail = << >>]

\* `if not line`
IsEmptyLine(l) == ~l.skel /\ l.lead = << >> /\ l.tail = << >>

\* the sub-pattern \d+
MatchesInt(tok) == Len(tok) >= 1 /\ \A i \in 1..Len(tok) : IsDigit(tok[i])

\* the sub-pattern [-+]?\d*\.?\d+
MatchesFloat(tok) ==
    LET body == IF tok # << >> /\ Head(tok) \in {"-", "+"} THEN Tail(tok) ELSE tok
        dots == { i \in 1..Len(body) : body[i] = "." }
    IN  /\ Len(body) >= 1
        /\ IsDigit(body[Len(body)])
        /\ Cardinality(dots) <= 1
        /\ \A i \in 1..Len(body) : IsDigit(body[i]) \/ body[i] = "."

\* self.pattern.match(line): the pattern is anchored at the start of the line
\* only; what follows the closing parenthesis of LegAng(...) is not looked at
PatternMatch(l) ==
    /\ l.skel
    /\ l.lead = << >>
    /\ \A i \in 1..3 : MatchesInt(l.fields[i])
    /\ \A i \in 4..12 : MatchesFloat(l.fields[i])

\* groups that count the uncaptured first number
GroupsFromFirst(l) == SubSeq(l.fields, 1, 11)

\* match.groups(): the eleven captured groups (the first number is not captured)
Groups(l) == SubSeq(l.fields, 2, 12)

\* int(text) succeeds
IntConvertible(tok) ==
    LET body == IF tok # << >> /\ Head(tok) \in {"-", "+"} THEN Tail(tok) ELSE tok
    IN  MatchesInt(body) /\ Len(body) <= IntMaxStrDigits

RECURSIVE IntValue(_)
IntValue(tok) ==
    IF tok = << >> THEN 0
    ELSE 10 * IntValue(SubSeq(tok, 1, Len(tok) - 1)) + DigitVal(tok[Len(tok)])

\* float(text) succeeds
FloatConvertible(tok) ==
    LET body == IF tok # << >> /\ Head(tok) \in {"-", "+"} THEN Tail(tok) ELSE tok
        dots == { i \in 1..Len(body) : body[i] = "." }
    IN  /\ \E i \in 1..Len(body) : IsDigit(body[i])
        /\ Cardinality(dots) <= 1
        /\ \A i \in 1..Len(body) : IsDigit(body[i]) \/ body[i] = "."

\* float(text), in thousandths
FloatValue(tok) ==
    LET neg  == tok # << >> /\ Head(tok) = "-"
        body == IF tok # << >> /\ Head(tok) \in {"-", "+"} THEN Tail(tok) ELSE tok
        dots == { i \in 1..Len(body) : body[i] = "." }
        dot  == IF dots = {} THEN Len(body) + 1 ELSE CHOOSE i \in dots : TRUE
        whole == SubSeq(body, 1, dot - 1)
        frac  == SubSeq(body, dot + 1, Len(body))
        frac3 == [i \in 1..3 |-> IF i <= Len(frac) THEN frac[i] ELSE "0"]
        v     == 1000 * IntValue(whole) + IntValue(frac3)
    IN  IF neg THEN 0 - v ELSE v

\* the leg_config a record carries when the configuration has none for its leg
NoConfig == [name |-> "None"]

\* HexapodConfig.get_leg_config raising ValueError
ValueError == [raised |-> "ValueError"]

\* HexapodConfig.get_leg_config(leg_id) (src/config_loader.py:173-183)
get_leg_config(cfg, leg_id) ==
    IF leg_id \notin DOMAIN cfg.legs
       THEN ValueError
       ELSE [position |-> cfg.legs[leg_id].position, rotation |-> cfg.legs[leg_id].rotation]

\* what parse_line hands back: the record (or None) and whether it printed
\* "Error parsing line"
NoRecord == [data |-> NoData, printed |-> 0]

\* the handler `except (ValueError, IndexError)` without its print
ParseErrorSilent == [data |-> NoData, printed |-> 0]

\* `except (ValueError, IndexError) as e: print(...); return None`
ParseError == [data |-> NoData, printed |-> 1]

\* a parser that rejects the legs the configuration does not know
parse_line_known_legs(l0, cfg) ==
    LET l == LineStrip(l0)
        g == Groups(l)
    IN  IF IsEmptyLine(l) \/ ~PatternMatch(l) THEN NoRecord
        ELSE IF \/ \E i \in 1..2 : ~IntConvertible(g[i])
                \/ \E i \in 3..11 : ~FloatConvertible(g[i])
                \/ get_leg_config(cfg, IntValue(g[2])) = ValueError
             THEN ParseError
             ELSE [data |-> LegData(IntValue(g[2]), IntValue(g[1]),
                                    << FloatValue(g[3]), FloatValue(g[4]), FloatValue(g[5]) >>,
                                    << FloatValue(g[6]), FloatValue(g[7]), FloatValue(g[8]) >>,
                                    << FloatValue(g[9]), FloatValue(g[10]), FloatValue(g[11]) >>)
                              @@ [leg_config |-> get_leg_config(cfg, IntValue(g[2]))],
                   printed |-> 0]

\* HexapodParser.parse_line (src/main.py:43-93)
parse_line(l0, cfg) ==
    LET l == LineStrip(l0)
        g == Groups(l)
    IN  IF IsEmptyLine(l) THEN NoRecord
        ELSE IF ~PatternMatch(l) THEN NoRecord
        ELSE IF \/ \E i \in 1..2 : ~IntConvertible(g[i])
                \/ \E i \in 3..11 : ~FloatConvertible(g[i])
             THEN ParseError
             ELSE LET leg_number == IntValue(g[2])
                      found      == get_leg_config(cfg, leg_number)
                  IN  [data |-> LegData(leg_number, IntValue(g[1]),
                                        << FloatValue(g[3]), FloatValue(g[4]), FloatValue(g[5]) >>,
                                        << FloatValue(g[6]), FloatValue(g[7]), FloatValue(g[8]) >>,
                                        << FloatValue(g[9]), FloatValue(g[10]), FloatValue(g[11]) >>)
                                  @@ [leg_config |-> IF found = ValueError THEN NoConfig
                                                                           ELSE found],
                       printed |-> 0]

(***************************************************************************)
(* The lines of the model.  The device writes a record with IntText and    *)
(* FixedText ("%d", "%.3f"); the other lines are variations of one record. *)
(***************************************************************************)
RECURSIVE IntText(_)
IntText(n) ==
    IF n < 10 THEN << Digits[n + 1] >>
    ELSE IntText(n \div 10) \o << Digits[(n % 10) + 1] >>

\* a number of thousandths written with three decimals
FixedText(v) ==
    LET a == IF v < 0 THEN 0 - v ELSE v
        f == a % 1000
    IN  (IF v < 0 THEN << "-" >> ELSE << >>)
        \o IntText(a \div 1000) \o << "." >>
        \o << Digits[(f \div 100) + 1], Digits[((f \div 10) % 10) + 1], Digits[(f % 10) + 1] >>

\* the line the device writes for a record
WireLine(tick, ts, leg, body, legxyz, ang) ==
    [lead |-> << >>, skel |-> TRUE,
     fields |-> << IntText(tick), IntText(ts), IntText(leg) >>
                \o [i \in 1..3 |-> FixedText(body[i])]
                \o [i \in 1..3 |-> FixedText(legxyz[i])]
                \o [i \in 1..3 |-> FixedText(ang[i])],
     tail |-> << >>]

\* free text
TextLine(cs) == [lead |-> cs, skel |-> FALSE, fields |-> << >>, tail |-> << >>]

\* the sample records (src/main.py:35, src/test_parser.py:14-15), and one for a
\* leg the robot does not have
Sample0 == << 39868, 39599638, 0, << 106, 280, -43 >>, << 230, -26, -43 >>, << -112, 25, 768 >> >>
Sample1 == << 39878, 39609641, 1, << 50, 300, -35 >>, << 200, -20, -35 >>, << -100, 30, 750 >> >>
Sample7 == << 39888, 39619644, 7, << -50, 280, -40 >>, << 180, -15, -40 >>, << -85, 20, 720 >> >>

Samples == { Sample0, Sample1, Sample7 }

LineOf(s) == WireLine(s[1], s[2], s[3], s[4], s[5], s[6])

\* the record a sample stands for
ValuesOf(s) == LegData(s[3], s[2], s[4], s[5], s[6])

WithField(l, i, tok) == [l EXCEPT !.fields[i] = tok]

\* a digit string too long for int()
LongDigits == [i \in 1..(IntMaxStrDigits + 1) |-> "9"]

BlankLines == { TextLine(<< >>), TextLine(<< " ", "\t" >>), TextLine(<< "\n" >>) }

NoiseLines == { TextLine(<< "g", "a", "r", "b", "a", "g", "e" >>),
                TextLine(<< "I", "n", "v", "a", "l", "i", "d", " ", "l", "i", "n", "e" >>) }

\* the sample record written with other spellings of three numbers
AltLine ==
    WithField(WithField(WithField(LineOf(Sample0), 4, << "+", "7" >>),
                        5, << ".", "5" >>), 6, << "5" >>)

AltValues == LegData(0, 39599638, << 7000, 500, 5000 >>, << 230, -26, -43 >>, << -112, 25, 768 >>)

\* lines that are records, with the record each stands for
WrittenLines ==
    { [l |-> LineOf(s), v |-> ValuesOf(s)] : s \in Samples }
    \cup { [l |-> AltLine, v |-> AltValues],
           [l |-> [LineOf(Sample1) EXCEPT !.lead = << " " >>, !.tail = << "\n" >>],
            v |-> ValuesOf(Sample1)] }

\* a record followed by more characters, and a record after other characters
TailLine == [LineOf(Sample0) EXCEPT !.tail = << " ", "x" >>]

LeadLine == [LineOf(Sample0) EXCEPT !.lead = << "x", " " >>]

\* the skeleton with a text that has not the shape of a number in one place
OddLines ==
    { WithField(LineOf(Sample0), 2, << "a" >>),
      WithField(LineOf(Sample0), 3, << "-", "5" >>),
      WithField(LineOf(Sample0), 4, << "1", "." >>),
      WithField(LineOf(Sample0), 5, << >>),
      WithField(LineOf(Sample0), 8, << "1", "e", "3" >>),
      WithField(LineOf(Sample0), 12, << "1", ".", "2", ".", "3" >>) }

\* the skeleton with a timestamp of too many digits
LongLine == WithField(LineOf(Sample0), 2, LongDigits)

\* the lines given to parse_line on its own
ParseLines ==
    { w.l : w \in WrittenLines } \cup { TailLine, LeadLine, LongLine }
    \cup OddLines \cup BlankLines \cup NoiseLines

\* the lines the device sends in the line-level pipeline
WireLines ==
    { LineOf(Sample0), LineOf(Sample7), LongLine } \cup BlankLines \cup NoiseLines

(***************************************************************************)
(* Loading the configuration (src/config_loader.py): the pydantic models   *)
(* LegConfig, RobotConfig and HexapodConfig validate what the YAML file    *)
(* gives; ConfigLoader.load_config returns the validated configuration or  *)
(* raises ValueError.  A validator's outcome is Accepted(value) or         *)
(* Rejected.  The list of link lengths is NoLinks when the file gives none *)
(* (None); the empty list is not among the inputs of the model.            *)
(***************************************************************************)
NoLinks == << >>

Accepted(v) == [ok |-> TRUE, value |-> v]

Rejected == [ok |-> FALSE]

\* a validator that leaves the legacy two-value form as it is
validate_link_lengths_keeps_two(v) ==
    IF v = NoLinks
       THEN Accepted(v)
       ELSE IF Len(v) \notin {2, 3}
               THEN Rejected
               ELSE IF \E i \in 1..Len(v) : v[i] <= 0
                       THEN Rejected
                       ELSE Accepted(v)

\* LegConfig.validate_link_lengths
validate_link_lengths(v) ==
    IF v = NoLinks
       THEN Accepted(v)
       ELSE IF Len(v) \notin {2, 3}
               THEN Rejected
               ELSE IF \E i \in 1..Len(v) : v[i] <= 0
                       THEN Rejected
                       ELSE IF Len(v) = 2
                               THEN Accepted(<< 0 >> \o v)
                               ELSE Accepted(v)

\* LegConfig.validate_position
validate_position(v) == IF Len(v) # 3 THEN Rejected ELSE Accepted(v)

\* LegConfig.validate_joint_angle_offsets
validate_joint_angle_offsets(v) == IF Len(v) # 3 THEN Rejected ELSE Accepted(v)

\* LegConfig(**entry): every field validated
LegConfig(entry) ==
    LET p == validate_position(entry.position)
        l == validate_link_lengths(entry.link_lengths)
        o == validate_joint_angle_offsets(entry.joint_angle_offsets)
    IN  IF p.ok /\ l.ok /\ o.ok
           THEN Accepted(LegGeometry(p.value, entry.rotation, l.value, o.value))
           ELSE Rejected

\* a validator that asks for legs 0..5 and allows more
validate_legs_allows_extra(v) ==
    IF LegIds \subseteq DOMAIN v THEN Accepted(v) ELSE Rejected

\* RobotConfig.validate_legs: exactly the legs 0..5
validate_legs(v) ==
    IF DOMAIN v # LegIds THEN Rejected ELSE Accepted(v)

\* HexapodConfig(**config_data): the legs are validated one by one, then their
\* key set
HexapodConfig(data) ==
    IF \E k \in DOMAIN data.legs : ~LegConfig(data.legs[k]).ok
       THEN Rejected
       ELSE LET legs == validate_legs([k \in DOMAIN data.legs |->
                                          LegConfig(data.legs[k]).value])
            IN  IF legs.ok
                   THEN Accepted([show_joints |-> data.show_joints,
                                  legs |-> legs.value])
                   ELSE Rejected

\* ConfigLoader.load_config: the configuration, or ValueError("Configuration
\* validation failed")
load_config(data) == HexapodConfig(data)

\* configuration not loaded yet; no get_leg_config call yet
NotLoaded == [done |-> FALSE]

NoLookup == [leg_id |-> 0 - 1, result |-> NoConfig]

\* the leg key sets, link length lists and offset lists a file may give
KeySets ==
    { LegIds, LegIds \ {5}, LegIds \cup {NumLegs}, (LegIds \ {0}) \cup {NumLegs},
      LegIds \ {2, 3}, {} }

LinkInputs ==
    { NoLinks, << 1, 2 >>, << 2, 3 >>, << 1, 2, 3 >>, << 0, 1, 2 >>, << 1, 0 >>,
      << 2 >>, << 1, 2, 3, 4 >>, << 0 - 1, 2, 3 >> }

OffsetInputs == { << 0, 0, 0 >>, << 1, 0, 0 - 1 >>, << 1, 0 >> }

RawConfigs ==
    { [show_joints |-> sj,
       legs |-> [k \in ks |-> LegGeometry(<< 1, 1, 0 >>, 0, l, o)]] :
        sj \in BOOLEAN, ks \in KeySets, l \in LinkInputs, o \in OffsetInputs }

\* the file that gives the default configuration
DefaultRaw == DefaultConfig

\* the angles, geometries and raw angle triples of the model: a geometry has
\* the link lengths validation made of a list the file gives
Turns == (0 - 1)..MaxTurn

Geometries ==
    { LegGeometry(p, r, validate_link_lengths(l).value, o) :
        p \in { << 0, 0, 0 >>, << 1, 0 - 2, 3 >> },
        r \in Turns,
        l \in { v \in LinkInputs : v # NoLinks /\ validate_link_lengths(v).ok },
        o \in { << 0, 0, 0 >>, << 1, 0, 0 - 1 >>, << 0, 1, 1 >> } }

AngleTriples == { << c, f, t >> : c \in Turns, f \in Turns, t \in Turns }

\* the leg indices asked of get_leg_config
LookupIds == (0 - 1)..(NumLegs + 1)

(***************************************************************************)
(* Initial state: HexapodVisualizer.__init__ (src/visualizer.py:40-84).    *)
(***************************************************************************)
InitPipeline ==
    /\ running = FALSE
    /\ data_queue = << >>
    /\ state = EmptyState
    /\ now = 0
    /\ mainpc = "init"
    /\ windowOpen = TRUE
    /\ animActive = FALSE
    /\ nthreads = 0
    /\ pc = [t \in Threads |-> "unborn"]
    /\ held = [t \in Threads |-> NoItem]
    /\ conn = [t \in Threads |-> "none"]
    /\ closes = [t \in Threads |-> 0]
    /\ cpc = "idle"
    /\ nparsed = 0
    /\ merged = << >>
    /\ evicted = {}
    /\ failed = [t \in Threads |-> FALSE]
    /\ readsAfterStop = [t \in Threads |-> 0]
    /\ everStopped = FALSE
    /\ sinceDeq = << >>
    /\ cleanBase = TRUE
    /\ tickStart = << >>
    /\ tickBase = 0
    /\ prevState = EmptyState

InitDemoOff ==
    /\ demo_running = FALSE
    /\ dpc = "unborn"
    /\ dleg = 0

InitLines ==
    /\ line = NoLine
    /\ result = NoData
    /\ reports = 0
    /\ nreads = 0
    /\ seen = << >>

InitSolve ==
    /\ geom = DefaultGeometry
    /\ angles = << 0, 0, 0 >>
    /\ chain = << >>

InitRender ==
    /\ config = DefaultConfig
    /\ chainLegs = {}
    /\ active_legs = 0

\* load_config has returned the default configuration
InitLoaded ==
    /\ config_data = DefaultRaw
    /\ loaded = load_config(DefaultRaw)
    /\ lookup = NoLookup

\* the live program: HexapodVisualizer(config) with the default configuration
Init ==
    /\ InitPipeline
    /\ InitRender
    /\ InitLoaded
    /\ mode = "live"
    /\ InitDemoOff
    /\ InitLines
    /\ InitSolve

\* the joint chain computation for any leg geometry and any raw angles
InitChain ==
    /\ InitPipeline
    /\ InitRender
    /\ InitLoaded
    /\ mode = "live"
    /\ InitDemoOff
    /\ InitLines
    /\ geom \in Geometries
    /\ angles \in AngleTriples
    /\ chain = << >>

\* main() before ConfigLoader.load_config, for any configuration file
InitConfig ==
    /\ InitPipeline
    /\ InitRender
    /\ mode = "live"
    /\ InitDemoOff
    /\ InitLines
    /\ InitSolve
    /\ config_data \in RawConfigs
    /\ loaded = NotLoaded
    /\ lookup = NoLookup

\* the configurations load_config accepts: joint display on or off, every leg
\* with or without link lengths
LoadedConfigs ==
    { load_config(d).value :
        d \in { r \in RawConfigs :
                  /\ load_config(r).ok
                  /\ \A k \in DOMAIN r.legs :
                        /\ r.legs[k].joint_angle_offsets = << 0, 0, 0 >>
                        /\ r.legs[k].link_lengths \in { NoLinks, << 1, 2, 3 >> } } }

\* HexapodVisualizer(config) for any of them
InitAnyConfig ==
    /\ InitPipeline
    /\ config \in LoadedConfigs
    /\ chainLegs = {}
    /\ active_legs = 0
    /\ InitLoaded
    /\ mode = "live"
    /\ InitDemoOff
    /\ InitLines
    /\ InitSolve

\* either program: visualizer.main() or demo.main()
InitModes ==
    /\ InitPipeline
    /\ InitRender
    /\ InitLoaded
    /\ mode \in {"live", "demo"}
    /\ InitDemoOff
    /\ InitLines
    /\ InitSolve

(***************************************************************************)
(* The producer: HexapodVisualizer._serial_reader_thread                   *)
(* (src/visualizer.py:520-548) with SerialReader (src/main.py:129-180).    *)
(* Each action is one step of thread t between two points where the        *)
(* consumer or the caller may run.                                         *)
(***************************************************************************)

\* reader.connect(): serial.Serial(...) opens the port or raises SerialException;
\* on failure the thread returns before the try block (no disconnect).
Connect(t) ==
    /\ pc[t] = "connect"
    /\ \/ /\ conn' = [conn EXCEPT ![t] = "open"]
          /\ pc' = [pc EXCEPT ![t] = "loop"]
       \/ /\ pc' = [pc EXCEPT ![t] = "done"]
          /\ UNCHANGED conn
    /\ UNCHANGED << running, data_queue, state, now, mainpc, windowOpen, animActive,
                    nthreads, held, closes, cpc, nparsed, merged, evicted, failed,
                    readsAfterStop, everStopped, sinceDeq, cleanBase, tickStart,
                    tickBase, prevState >>
    /\ UNCHANGED << config, chainLegs, demoVars, lineVars, solveVars,
                    active_legs, loadVars >>

\* `while self.running:` the cooperative cancellation test, once per iteration
LoopTest(t) ==
    /\ pc[t] = "loop"
    /\ pc' = [pc EXCEPT ![t] = IF running THEN "read" ELSE "finally"]
    /\ UNCHANGED << running, data_queue, state, now, mainpc, windowOpen, animActive,
                    nthreads, held, conn, closes, cpc, nparsed, merged, evicted,
                    failed, readsAfterStop, everStopped, sinceDeq, cleanBase,
                    tickStart, tickBase, prevState >>
    /\ UNCHANGED << config, chainLegs, demoVars, lineVars, solveVars,
                    active_legs, loadVars >>

\* reader.read_and_parse(): one blocking readline plus parse_line.  The read
\*   - yields a record (a line that parses), while the device has records left;
\*   - yields None (read timeout, noise, or a line that does not parse);
\*   - raises serial.SerialException, which read_and_parse catches and turns
\*     into None (src/main.py:175-177);
\*   - raises another exception, which reaches the thread's `except Exception`.
\* The running flag may have been cleared since the loop test: the read is
\* then the last one of the thread.
ReadAndParse(t, maxp) ==
    /\ pc[t] = "read"
    /\ conn[t] = "open"
    /\ readsAfterStop' = [readsAfterStop EXCEPT ![t] = IF running THEN @ ELSE @ + 1]
    /\ \/ /\ nparsed < maxp
          /\ \E r \in WireRecords :
                held' = [held EXCEPT ![t] = [seq |-> nparsed + 1, data |-> r]]
          /\ nparsed' = nparsed + 1
          /\ pc' = [pc EXCEPT ![t] = "put"]
          /\ UNCHANGED failed
       \/ /\ pc' = [pc EXCEPT ![t] = "loop"]
          /\ UNCHANGED << held, nparsed, failed >>
       \/ /\ failed' = [failed EXCEPT ![t] = TRUE]
          /\ pc' = [pc EXCEPT ![t] = "loop"]
          /\ UNCHANGED << held, nparsed >>
       \/ /\ pc' = [pc EXCEPT ![t] = "finally"]
          /\ UNCHANGED << held, nparsed, failed >>
    /\ UNCHANGED << running, data_queue, state, now, mainpc, windowOpen, animActive,
                    nthreads, conn, closes, cpc, merged, evicted, everStopped,
                    sinceDeq, cleanBase, tickStart, tickBase, prevState >>
    /\ UNCHANGED << config, chainLegs, demoVars, lineVars, solveVars,
                    active_legs, loadVars >>

\* a put that never finds the queue full
PutUnbounded(t) ==
    /\ pc[t] = "put"
    /\ data_queue' = Append(data_queue, held[t])
    /\ sinceDeq' = Append(sinceDeq, held[t].seq)
    /\ held' = [held EXCEPT ![t] = NoItem]
    /\ pc' = [pc EXCEPT ![t] = "loop"]
    /\ UNCHANGED << running, state, now, mainpc, windowOpen, animActive, nthreads,
                    conn, closes, cpc, nparsed, merged, evicted, failed,
                    readsAfterStop, everStopped, cleanBase, tickStart, tickBase,
                    prevState >>
    /\ UNCHANGED << config, chainLegs, demoVars, lineVars, solveVars,
                    active_legs, loadVars >>

\* self.data_queue.put_nowait(leg_data): appends, or raises queue.Full
PutNowait(t) ==
    /\ pc[t] = "put"
    /\ IF Full(data_queue)
          THEN /\ pc' = [pc EXCEPT ![t] = "evict"]
               /\ UNCHANGED << data_queue, held, sinceDeq >>
          ELSE /\ data_queue' = Append(data_queue, held[t])
               /\ sinceDeq' = Append(sinceDeq, held[t].seq)
               /\ held' = [held EXCEPT ![t] = NoItem]
               /\ pc' = [pc EXCEPT ![t] = "loop"]
    /\ UNCHANGED << running, state, now, mainpc, windowOpen, animActive, nthreads,
                    conn, closes, cpc, nparsed, merged, evicted, failed,
                    readsAfterStop, everStopped, cleanBase, tickStart, tickBase,
                    prevState >>
    /\ UNCHANGED << config, chainLegs, demoVars, lineVars, solveVars,
                    active_legs, loadVars >>

\* an overflow handler that removes the newest queued item
EvictNewest(t) ==
    /\ pc[t] = "evict"
    /\ IF data_queue = << >>
          THEN /\ held' = [held EXCEPT ![t] = NoItem]
               /\ pc' = [pc EXCEPT ![t] = "loop"]
               /\ UNCHANGED << data_queue, evicted >>
          ELSE /\ evicted' = evicted \cup {data_queue[Len(data_queue)].seq}
               /\ data_queue' = SubSeq(data_queue, 1, Len(data_queue) - 1)
               /\ pc' = [pc EXCEPT ![t] = "reput"]
               /\ UNCHANGED held
    /\ UNCHANGED << running, state, now, mainpc, windowOpen, animActive, nthreads,
                    conn, closes, cpc, nparsed, merged, failed, readsAfterStop,
                    everStopped, sinceDeq, cleanBase, tickStart, tickBase, prevState >>
    /\ UNCHANGED << config, chainLegs, demoVars, lineVars, solveVars,
                    active_legs, loadVars >>

\* `except queue.Full:` self.data_queue.get_nowait() removes the oldest item, or
\* raises queue.Empty when the consumer has drained the queue in the meantime:
\* `except queue.Empty: pass` then abandons leg_data.
EvictOldest(t) ==
    /\ pc[t] = "evict"
    /\ IF data_queue = << >>
          THEN /\ held' = [held EXCEPT ![t] = NoItem]
               /\ pc' = [pc EXCEPT ![t] = "loop"]
               /\ UNCHANGED << data_queue, evicted >>
          ELSE /\ evicted' = evicted \cup {Head(data_queue).seq}
               /\ data_queue' = Tail(data_queue)
               /\ pc' = [pc EXCEPT ![t] = "reput"]
               /\ UNCHANGED held
    /\ UNCHANGED << running, state, now, mainpc, windowOpen, animActive, nthreads,
                    conn, closes, cpc, nparsed, merged, failed, readsAfterStop,
                    everStopped, sinceDeq, cleanBase, tickStart, tickBase, prevState >>
    /\ UNCHANGED << config, chainLegs, demoVars, lineVars, solveVars,
                    active_legs, loadVars >>

\* the second self.data_queue.put_nowait(leg_data), inside the handler: a
\* queue.Full raised here is not caught by `except queue.Empty` and reaches the
\* thread's `except Exception`.
PutAgain(t) ==
    /\ pc[t] = "reput"
    /\ IF Full(data_queue)
          THEN /\ pc' = [pc EXCEPT ![t] = "finally"]
               /\ held' = [held EXCEPT ![t] = NoItem]
               /\ UNCHANGED << data_queue, sinceDeq >>
          ELSE /\ data_queue' = Append(data_queue, held[t])
               /\ sinceDeq' = Append(sinceDeq, held[t].seq)
               /\ held' = [held EXCEPT ![t] = NoItem]
               /\ pc' = [pc EXCEPT ![t] = "loop"]
    /\ UNCHANGED << running, state, now, mainpc, windowOpen, animActive, nthreads,
                    conn, closes, cpc, nparsed, merged, evicted, failed,
                    readsAfterStop, everStopped, cleanBase, tickStart, tickBase,
                    prevState >>
    /\ UNCHANGED << config, chainLegs, demoVars, lineVars, solveVars,
                    active_legs, loadVars >>

\* a disconnect that leaves the port open
DisconnectLeavesOpen(t) ==
    /\ pc[t] = "finally"
    /\ pc' = [pc EXCEPT ![t] = "done"]
    /\ UNCHANGED << running, data_queue, state, now, mainpc, windowOpen, animActive,
                    nthreads, held, conn, closes, cpc, nparsed, merged, evicted,
                    failed, readsAfterStop, everStopped, sinceDeq, cleanBase,
                    tickStart, tickBase, prevState >>
    /\ UNCHANGED << config, chainLegs, demoVars, lineVars, solveVars,
                    active_legs, loadVars >>

\* `finally: reader.disconnect()`: closes the port if it is open
\* (src/main.py:152-156), then the thread ends.
Disconnect(t) ==
    /\ pc[t] = "finally"
    /\ IF conn[t] = "open"
          THEN /\ conn' = [conn EXCEPT ![t] = "closed"]
               /\ closes' = [closes EXCEPT ![t] = @ + 1]
          ELSE UNCHANGED << conn, closes >>
    /\ pc' = [pc EXCEPT ![t] = "done"]
    /\ UNCHANGED << running, data_queue, state, now, mainpc, windowOpen, animActive,
                    nthreads, held, cpc, nparsed, merged, evicted, failed,
                    readsAfterStop, everStopped, sinceDeq, cleanBase, tickStart,
                    tickBase, prevState >>
    /\ UNCHANGED << config, chainLegs, demoVars, lineVars, solveVars,
                    active_legs, loadVars >>

(***************************************************************************)
(* The consumer: HexapodVisualizer._update_plot (src/visualizer.py:398-443)*)
(* called by the FuncAnimation timer on the GUI thread.                    *)
(***************************************************************************)

\* the animation timer fires: _update_plot begins (data_processed = 0)
UpdatePlotBegin ==
    /\ mainpc = "show"
    /\ windowOpen
    /\ animActive
    /\ cpc = "idle"
    /\ cpc' = "check"
    /\ tickStart' = Tags(data_queue)
    /\ tickBase' = Len(merged)
    /\ UNCHANGED << running, data_queue, state, now, mainpc, windowOpen, animActive,
                    nthreads, pc, held, conn, closes, nparsed, merged, evicted, failed,
                    readsAfterStop, everStopped, sinceDeq, cleanBase, prevState >>
    /\ UNCHANGED << config, chainLegs, demoVars, lineVars, solveVars,
                    active_legs, loadVars >>

\* a drain loop whose test always finds the queue empty
QueueEmptyTestSkips ==
    /\ cpc = "check"
    /\ cpc' = "draw"
    /\ UNCHANGED << running, data_queue, state, now, mainpc, windowOpen, animActive,
                    nthreads, pc, held, conn, closes, nparsed, merged, evicted, failed,
                    readsAfterStop, everStopped, sinceDeq, cleanBase, tickStart,
                    tickBase, prevState >>
    /\ UNCHANGED << config, chainLegs, demoVars, lineVars, solveVars,
                    active_legs, loadVars >>

\* `while not self.data_queue.empty():`
QueueEmptyTest ==
    /\ cpc = "check"
    /\ cpc' = IF data_queue = << >> THEN "draw" ELSE "get"
    /\ UNCHANGED << running, data_queue, state, now, mainpc, windowOpen, animActive,
                    nthreads, pc, held, conn, closes, nparsed, merged, evicted, failed,
                    readsAfterStop, everStopped, sinceDeq, cleanBase, tickStart,
                    tickBase, prevState >>
    /\ UNCHANGED << config, chainLegs, demoVars, lineVars, solveVars,
                    active_legs, loadVars >>

\* a drain that stops after the first item
GetOnce ==
    /\ cpc = "get"
    /\ IF data_queue = << >>
          THEN /\ cpc' = "draw"
               /\ UNCHANGED << prevState, state, merged, data_queue, sinceDeq, cleanBase >>
          ELSE /\ prevState' = state
               /\ state' = update_leg(state, Head(data_queue).data, now)
               /\ merged' = Append(merged, Head(data_queue))
               /\ data_queue' = Tail(data_queue)
               /\ sinceDeq' = << >>
               /\ cleanBase' = (\A t \in Threads : pc[t] \notin {"evict", "reput"})
               /\ cpc' = "draw"
    /\ UNCHANGED << running, now, mainpc, windowOpen, animActive, nthreads, pc, held,
                    conn, closes, nparsed, evicted, failed, readsAfterStop,
                    everStopped, tickStart, tickBase >>
    /\ UNCHANGED << config, chainLegs, demoVars, lineVars, solveVars,
                    active_legs, loadVars >>

\* `leg_data = self.data_queue.get_nowait(); self.state.update_leg(leg_data)`,
\* or `except queue.Empty: break` when a producer emptied the queue after the test
GetNowait ==
    /\ cpc = "get"
    /\ IF data_queue = << >>
          THEN /\ cpc' = "draw"
               /\ UNCHANGED << prevState, state, merged, data_queue, sinceDeq, cleanBase >>
          ELSE /\ prevState' = state
               /\ state' = update_leg(state, Head(data_queue).data, now)
               /\ merged' = Append(merged, Head(data_queue))
               /\ data_queue' = Tail(data_queue)
               /\ sinceDeq' = << >>
               /\ cleanBase' = (\A t \in Threads : pc[t] \notin {"evict", "reput"})
               /\ cpc' = "check"
    /\ UNCHANGED << running, now, mainpc, windowOpen, animActive, nthreads, pc, held,
                    conn, closes, nparsed, evicted, failed, readsAfterStop,
                    everStopped, tickStart, tickBase >>
    /\ UNCHANGED << config, chainLegs, demoVars, lineVars, solveVars,
                    active_legs, loadVars >>

\* the rest of _update_plot: statistics, redraw, title; the callback returns
Draw ==
    /\ cpc = "draw"
    /\ cpc' = "idle"
    /\ UNCHANGED << running, data_queue, state, now, mainpc, windowOpen, animActive,
                    nthreads, pc, held, conn, closes, nparsed, merged, evicted, failed,
                    readsAfterStop, everStopped, sinceDeq, cleanBase, tickStart,
                    tickBase, prevState >>
    /\ chainLegs' = ChainLegs(config, state)
    /\ active_legs' = Cardinality(DOMAIN state.leg_positions)
    /\ UNCHANGED << config, demoVars, lineVars, solveVars, loadVars >>

(***************************************************************************)
(* The caller and the GUI thread: start_visualization / stop_visualization *)
(* (src/visualizer.py:550-581) and _on_key_press (src/visualizer.py:482-485)*)
(***************************************************************************)

\* lines 555-569: running = True, the reader thread starts (its target is
\* self._serial_reader_thread, which DemoVisualizer overrides), the animation is
\* created and plt.show() blocks in the GUI loop
StartBody ==
    /\ running' = TRUE
    /\ nthreads' = nthreads + 1
    /\ pc' = [pc EXCEPT ![nthreads + 1] = IF mode = "demo" THEN "demo_test" ELSE "connect"]
    /\ animActive' = TRUE
    /\ mainpc' = "show"
    /\ UNCHANGED << data_queue, state, now, windowOpen, held, conn, closes, cpc,
                    nparsed, merged, evicted, failed, readsAfterStop, everStopped,
                    sinceDeq, cleanBase, tickStart, tickBase, prevState >>
    /\ UNCHANGED << config, chainLegs, demoVars, lineVars, solveVars,
                    active_legs, loadVars >>

\* the first call of start_visualization() on the instance
\* (demo.main() calls demo.start_demo() before it)
StartVisualization ==
    /\ mainpc = "init"
    /\ mode = "demo" => dpc # "unborn"
    /\ StartBody

\* a later call of start_visualization() on the same instance
StartVisualizationAgain ==
    /\ mainpc = "returned"
    /\ nthreads < MaxThreads
    /\ StartBody

\* _on_key_press with 'escape' or 'q': plt.close(self.fig); stop_visualization()
KeyQuit ==
    /\ mainpc = "show"
    /\ windowOpen
    /\ cpc = "idle"
    /\ windowOpen' = FALSE
    /\ running' = FALSE
    /\ animActive' = FALSE
    /\ everStopped' = (everStopped \/ running)
    /\ UNCHANGED << data_queue, state, now, mainpc, nthreads, pc, held, conn, closes,
                    cpc, nparsed, merged, evicted, failed, readsAfterStop, sinceDeq,
                    cleanBase, tickStart, tickBase, prevState >>
    /\ UNCHANGED << config, chainLegs, demoVars, lineVars, solveVars,
                    active_legs, loadVars >>

\* the user closes the window
WindowClose ==
    /\ mainpc = "show"
    /\ windowOpen
    /\ cpc = "idle"
    /\ windowOpen' = FALSE
    /\ UNCHANGED << running, data_queue, state, now, mainpc, animActive, nthreads, pc,
                    held, conn, closes, cpc, nparsed, merged, evicted, failed,
                    readsAfterStop, everStopped, sinceDeq, cleanBase, tickStart,
                    tickBase, prevState >>
    /\ UNCHANGED << config, chainLegs, demoVars, lineVars, solveVars,
                    active_legs, loadVars >>

\* plt.show() returns once no figure is open; line 572: self.running = False
ShowReturns ==
    /\ mainpc = "show"
    /\ ~windowOpen
    /\ cpc = "idle"
    /\ running' = FALSE
    /\ everStopped' = (everStopped \/ running)
    /\ mainpc' = "join"
    /\ UNCHANGED << data_queue, state, now, windowOpen, animActive, nthreads, pc, held,
                    conn, closes, cpc, nparsed, merged, evicted, failed,
                    readsAfterStop, sinceDeq, cleanBase, tickStart, tickBase,
                    prevState >>
    /\ UNCHANGED << config, chainLegs, demoVars, lineVars, solveVars,
                    active_legs, loadVars >>

\* lines 573-574: serial_thread.join(timeout=2.0) returns, the thread having
\* ended or not
JoinReturns ==
    /\ mainpc = "join"
    /\ mainpc' = "returned"
    /\ UNCHANGED << running, data_queue, state, now, windowOpen, animActive, nthreads,
                    pc, held, conn, closes, cpc, nparsed, merged, evicted, failed,
                    readsAfterStop, everStopped, sinceDeq, cleanBase, tickStart,
                    tickBase, prevState >>
    /\ UNCHANGED << config, chainLegs, demoVars, lineVars, solveVars,
                    active_legs, loadVars >>

\* stop_visualization() called by the owner outside the GUI loop
StopVisualization ==
    /\ mainpc \in {"init", "returned"}
    /\ running' = FALSE
    /\ animActive' = FALSE
    /\ windowOpen' = FALSE
    /\ everStopped' = (everStopped \/ running)
    /\ UNCHANGED << data_queue, state, now, mainpc, nthreads, pc, held, conn, closes,
                    cpc, nparsed, merged, evicted, failed, readsAfterStop, sinceDeq,
                    cleanBase, tickStart, tickBase, prevState >>
    /\ UNCHANGED << config, chainLegs, demoVars, lineVars, solveVars,
                    active_legs, loadVars >>

(***************************************************************************)
(* HexapodState on its own: update_leg applied to arbitrary records while  *)
(* the wall clock advances.  (The pipeline specifications hold the clock   *)
(* still: no step of the pipeline reads state.timestamp.)                  *)
(***************************************************************************)
MergeAny ==
    /\ Len(merged) < MaxMerges
    /\ \E r \in MergeRecords :
          /\ prevState' = state
          /\ state' = update_leg(state, r, now)
          /\ merged' = Append(merged, [seq |-> 0, data |-> r])
    /\ UNCHANGED << running, data_queue, now, mainpc, windowOpen, animActive, nthreads,
                    pc, held, conn, closes, cpc, nparsed, evicted, failed,
                    readsAfterStop, everStopped, sinceDeq, cleanBase, tickStart,
                    tickBase >>
    /\ UNCHANGED << config, chainLegs, demoVars, lineVars, solveVars,
                    active_legs, loadVars >>

ClockTick ==
    /\ now < MaxClock
    /\ now' = now + 1
    /\ UNCHANGED << running, data_queue, state, mainpc, windowOpen, animActive,
                    nthreads, pc, held, conn, closes, cpc, nparsed, merged, evicted,
                    failed, readsAfterStop, everStopped, sinceDeq, cleanBase,
                    tickStart, tickBase, prevState >>
    /\ UNCHANGED << config, chainLegs, demoVars, lineVars, solveVars,
                    active_legs, loadVars >>

(***************************************************************************)
(* Demo mode (src/demo.py): HexapodDemo's simulation thread enqueues       *)
(* synthetic records on visualizer.data_queue; DemoVisualizer's reader     *)
(* thread only waits.                                                      *)
(***************************************************************************)
\* number of records the simulation produces in the model
MaxDemoParsed == 7

\* the record the simulation builds for leg_id (src/demo.py:86-93)
DemoRecord(leg_id) == LegData(leg_id, 7, V1, V1, V2)

\* demo.start_demo(pattern): running = True, the simulation thread starts
StartDemo ==
    /\ mode = "demo"
    /\ mainpc = "init"
    /\ dpc = "unborn"
    /\ demo_running' = TRUE
    /\ dpc' = "test"
    /\ UNCHANGED << running, data_queue, state, now, mainpc, windowOpen, animActive,
                    nthreads, pc, held, conn, closes, cpc, nparsed, merged, evicted,
                    failed, readsAfterStop, everStopped, sinceDeq, cleanBase,
                    tickStart, tickBase, prevState, config, chainLegs, mode, dleg,
                    line, result, reports, nreads, seen, geom, angles, chain,
                    active_legs, config_data, loaded, lookup >>

\* `while self.running:` of the simulation; `for leg_id in range(6)` begins
SimLoopTest ==
    /\ dpc = "test"
    /\ IF demo_running
          THEN dpc' = "put" /\ dleg' = 0
          ELSE dpc' = "done" /\ UNCHANGED dleg
    /\ UNCHANGED << running, data_queue, state, now, mainpc, windowOpen, animActive,
                    nthreads, pc, held, conn, closes, cpc, nparsed, merged, evicted,
                    failed, readsAfterStop, everStopped, sinceDeq, cleanBase,
                    tickStart, tickBase, prevState, config, chainLegs, mode,
                    demo_running, line, result, reports, nreads, seen, geom, angles,
                    chain,
                    active_legs, config_data, loaded, lookup >>

\* a simulation that also writes the record into the state itself
SimPutAndMerge(maxp) ==
    /\ dpc = "put"
    /\ nparsed < maxp
    /\ nparsed' = nparsed + 1
    /\ state' = update_leg(state, DemoRecord(dleg), now)
    /\ IF Full(data_queue)
          THEN UNCHANGED << data_queue, sinceDeq >>
          ELSE /\ data_queue' = Append(data_queue,
                                       [seq |-> nparsed + 1, data |-> DemoRecord(dleg)])
               /\ sinceDeq' = Append(sinceDeq, nparsed + 1)
    /\ dleg' = dleg + 1
    /\ dpc' = IF dleg + 1 = NumLegs THEN "sleep" ELSE "put"
    /\ UNCHANGED << running, now, mainpc, windowOpen, animActive, nthreads, pc, held,
                    conn, closes, cpc, merged, evicted, failed, readsAfterStop,
                    everStopped, cleanBase, tickStart, tickBase, prevState, config,
                    chainLegs, mode, demo_running, line, result, reports, nreads, seen,
                    geom, angles, chain,
                    active_legs, config_data, loaded, lookup >>

\* one iteration of the for loop: build leg_data and
\* `try: self.visualizer.data_queue.put_nowait(leg_data)  except: pass`:
\* on a full queue the new record is skipped
SimPut(maxp) ==
    /\ dpc = "put"
    /\ nparsed < maxp
    /\ nparsed' = nparsed + 1
    /\ IF Full(data_queue)
          THEN UNCHANGED << data_queue, sinceDeq >>
          ELSE /\ data_queue' = Append(data_queue,
                                       [seq |-> nparsed + 1, data |-> DemoRecord(dleg)])
               /\ sinceDeq' = Append(sinceDeq, nparsed + 1)
    /\ dleg' = dleg + 1
    /\ dpc' = IF dleg + 1 = NumLegs THEN "sleep" ELSE "put"
    /\ UNCHANGED << running, state, now, mainpc, windowOpen, animActive, nthreads, pc,
                    held, conn, closes, cpc, merged, evicted, failed, readsAfterStop,
                    everStopped, cleanBase, tickStart, tickBase, prevState, config,
                    chainLegs, mode, demo_running, line, result, reports, nreads, seen,
                    geom, angles, chain,
                    active_legs, config_data, loaded, lookup >>

\* time.sleep(1.0 / 60.0) at the end of a cycle
SimSleep ==
    /\ dpc = "sleep"
    /\ dpc' = "test"
    /\ UNCHANGED << running, data_queue, state, now, mainpc, windowOpen, animActive,
                    nthreads, pc, held, conn, closes, cpc, nparsed, merged, evicted,
                    failed, readsAfterStop, everStopped, sinceDeq, cleanBase,
                    tickStart, tickBase, prevState, config, chainLegs, mode,
                    demo_running, dleg, line, result, reports, nreads, seen, geom,
                    angles, chain,
                    active_legs, config_data, loaded, lookup >>

\* DemoVisualizer._serial_reader_thread: `while self.running:`
DemoReaderTest(t) ==
    /\ pc[t] = "demo_test"
    /\ pc' = [pc EXCEPT ![t] = IF running THEN "demo_sleep" ELSE "done"]
    /\ UNCHANGED << running, data_queue, state, now, mainpc, windowOpen, animActive,
                    nthreads, held, conn, closes, cpc, nparsed, merged, evicted,
                    failed, readsAfterStop, everStopped, sinceDeq, cleanBase,
                    tickStart, tickBase, prevState, config, chainLegs, mode,
                    demo_running, dpc, dleg, line, result, reports, nreads, seen, geom,
                    angles, chain,
                    active_legs, config_data, loaded, lookup >>

\* DemoVisualizer._serial_reader_thread: time.sleep(0.1)
DemoReaderSleep(t) ==
    /\ pc[t] = "demo_sleep"
    /\ pc' = [pc EXCEPT ![t] = "demo_test"]
    /\ UNCHANGED << running, data_queue, state, now, mainpc, windowOpen, animActive,
                    nthreads, held, conn, closes, cpc, nparsed, merged, evicted,
                    failed, readsAfterStop, everStopped, sinceDeq, cleanBase,
                    tickStart, tickBase, prevState, config, chainLegs, mode,
                    demo_running, dpc, dleg, line, result, reports, nreads, seen, geom,
                    angles, chain,
                    active_legs, config_data, loaded, lookup >>

\* demo.stop_demo() after start_visualization() has returned: running = False;
\* demo_thread.join(timeout=1.0) returns, the thread having ended or not
StopDemo ==
    /\ mode = "demo"
    /\ mainpc = "returned"
    /\ demo_running' = FALSE
    /\ mainpc' = "exit"
    /\ UNCHANGED << running, data_queue, state, now, windowOpen, animActive, nthreads,
                    pc, held, conn, closes, cpc, nparsed, merged, evicted, failed,
                    readsAfterStop, everStopped, sinceDeq, cleanBase, tickStart,
                    tickBase, prevState, config, chainLegs, mode, dpc, dleg, line,
                    result, reports, nreads, seen, geom, angles, chain,
                    active_legs, config_data, loaded, lookup >>

(***************************************************************************)
(* The line level.  ParseCall is parse_line called on its own (as          *)
(* src/test_parser.py does); ReadLineAndParse is read_and_parse inside the *)
(* reader thread, with the line it reads.                                  *)
(***************************************************************************)
\* number of parse_line calls on its own
MaxCalls == 3

\* number of lines the reader thread reads in the line-level pipeline
MaxLines == 3

\* a parser that answers an empty line with the record it returned last
ParseCallRemembering ==
    /\ nreads < MaxCalls
    /\ \E l \in ParseLines :
          LET r == parse_line(l, config)
              d == IF IsEmptyLine(LineStrip(l)) THEN result ELSE r.data
          IN  /\ line' = l
              /\ result' = d
              /\ reports' = reports + r.printed
              /\ seen' = Append(seen, << l, d >>)
    /\ nreads' = nreads + 1
    /\ UNCHANGED << running, data_queue, state, now, mainpc, windowOpen, animActive,
                    nthreads, pc, held, conn, closes, cpc, nparsed, merged, evicted,
                    failed, readsAfterStop, everStopped, sinceDeq, cleanBase,
                    tickStart, tickBase, prevState, config, chainLegs, mode,
                    demo_running, dpc, dleg, geom, angles, chain,
                    active_legs, config_data, loaded, lookup >>

\* leg_data = parser.parse_line(line)
ParseCall ==
    /\ nreads < MaxCalls
    /\ \E l \in ParseLines :
          LET r == parse_line(l, config)
          IN  /\ line' = l
              /\ result' = r.data
              /\ reports' = reports + r.printed
              /\ seen' = Append(seen, << l, r.data >>)
    /\ nreads' = nreads + 1
    /\ UNCHANGED << running, data_queue, state, now, mainpc, windowOpen, animActive,
                    nthreads, pc, held, conn, closes, cpc, nparsed, merged, evicted,
                    failed, readsAfterStop, everStopped, sinceDeq, cleanBase,
                    tickStart, tickBase, prevState, config, chainLegs, mode,
                    demo_running, dpc, dleg, geom, angles, chain,
                    active_legs, config_data, loaded, lookup >>

\* a reader that enqueues whatever parse_line returns
ReadLineAndEnqueue(t) ==
    /\ pc[t] = "read"
    /\ conn[t] = "open"
    /\ nreads < MaxLines
    /\ nreads' = nreads + 1
    /\ readsAfterStop' = [readsAfterStop EXCEPT ![t] = IF running THEN @ ELSE @ + 1]
    /\ \E l \in WireLines :
          LET r == parse_line(l, config)
          IN  /\ line' = l
              /\ result' = r.data
              /\ reports' = reports + r.printed
              /\ held' = [held EXCEPT ![t] = [seq |-> nparsed + 1, data |-> r.data]]
              /\ nparsed' = nparsed + 1
              /\ pc' = [pc EXCEPT ![t] = "put"]
    /\ UNCHANGED failed
    /\ UNCHANGED << running, data_queue, state, now, mainpc, windowOpen, animActive,
                    nthreads, conn, closes, cpc, merged, evicted, everStopped,
                    sinceDeq, cleanBase, tickStart, tickBase, prevState, config,
                    chainLegs, mode, demo_running, dpc, dleg, seen, geom, angles,
                    chain,
                    active_legs, config_data, loaded, lookup >>

\* reader.read_and_parse() with its line: readline().decode(errors='ignore')
\* yields a line (the empty line on a read timeout) and parse_line is applied,
\* or readline raises serial.SerialException, which is caught and gives None;
\* then `if leg_data:` decides whether the record goes to the queue
ReadLineAndParse(t) ==
    /\ pc[t] = "read"
    /\ conn[t] = "open"
    /\ nreads < MaxLines
    /\ nreads' = nreads + 1
    /\ readsAfterStop' = [readsAfterStop EXCEPT ![t] = IF running THEN @ ELSE @ + 1]
    /\ \/ /\ \E l \in WireLines :
                LET r == parse_line(l, config)
                IN  /\ line' = l
                    /\ result' = r.data
                    /\ reports' = reports + r.printed
                    /\ IF r.data # NoData
                          THEN /\ held' = [held EXCEPT ![t] = [seq |-> nparsed + 1,
                                                               data |-> r.data]]
                               /\ nparsed' = nparsed + 1
                               /\ pc' = [pc EXCEPT ![t] = "put"]
                          ELSE /\ pc' = [pc EXCEPT ![t] = "loop"]
                               /\ UNCHANGED << held, nparsed >>
          /\ UNCHANGED failed
       \/ /\ failed' = [failed EXCEPT ![t] = TRUE]
          /\ line' = NoLine
          /\ result' = NoData
          /\ pc' = [pc EXCEPT ![t] = "loop"]
          /\ UNCHANGED << held, nparsed, reports >>
    /\ UNCHANGED << running, data_queue, state, now, mainpc, windowOpen, animActive,
                    nthreads, conn, closes, cpc, merged, evicted, everStopped,
                    sinceDeq, cleanBase, tickStart, tickBase, prevState, config,
                    chainLegs, mode, demo_running, dpc, dleg, seen, geom, angles,
                    chain,
                    active_legs, config_data, loaded, lookup >>

(***************************************************************************)
(* The joint chain on its own: _draw_legs computes the chain of one leg    *)
(* from its geometry and its latest raw angles.                            *)
(***************************************************************************)
ComputeChain ==
    /\ chain = << >>
    /\ chain' = joint_chain(geom, angles)
    /\ UNCHANGED << running, data_queue, state, now, mainpc, windowOpen, animActive,
                    nthreads, pc, held, conn, closes, cpc, nparsed, merged, evicted,
                    failed, readsAfterStop, everStopped, sinceDeq, cleanBase,
                    tickStart, tickBase, prevState, config, chainLegs, mode,
                    demo_running, dpc, dleg, line, result, reports, nreads, seen, geom,
                    angles,
                    active_legs, config_data, loaded, lookup >>

(***************************************************************************)
(* Loading the configuration and asking it for a leg.                      *)
(***************************************************************************)
\* config = ConfigLoader.load_config("config.yaml")
LoadConfig ==
    /\ loaded = NotLoaded
    /\ loaded' = load_config(config_data)
    /\ UNCHANGED << running, data_queue, state, now, mainpc, windowOpen, animActive,
                    nthreads, pc, held, conn, closes, cpc, nparsed, merged, evicted,
                    failed, readsAfterStop, everStopped, sinceDeq, cleanBase,
                    tickStart, tickBase, prevState, config, chainLegs, mode,
                    demo_running, dpc, dleg, line, result, reports, nreads, seen, geom,
                    angles, chain, active_legs, config_data, lookup >>

\* config.get_leg_config(i) on a loaded configuration
GetLegConfig ==
    /\ loaded # NotLoaded
    /\ loaded.ok
    /\ \E i \in LookupIds :
          lookup' = [leg_id |-> i, result |-> get_leg_config(loaded.value, i)]
    /\ UNCHANGED << running, data_queue, state, now, mainpc, windowOpen, animActive,
                    nthreads, pc, held, conn, closes, cpc, nparsed, merged, evicted,
                    failed, readsAfterStop, everStopped, sinceDeq, cleanBase,
                    tickStart, tickBase, prevState, config, chainLegs, mode,
                    demo_running, dpc, dleg, line, result, reports, nreads, seen, geom,
                    angles, chain, active_legs, config_data, loaded >>

(***************************************************************************)
(* The pipeline in front of the renderer: the device reports its legs in   *)
(* turn, one line among them carrying a leg number the robot does not have *)
(* (parse_line accepts any leg number), and the visualizer runs with any   *)
(* accepted configuration.                                                 *)
(***************************************************************************)
\* the leg numbers of the lines the device sends, in order
TelemetryLegs == << 0, 1, 2, 3, 4, 5, NumLegs + 1 >>

TelemetryRecord(n) == LegData(TelemetryLegs[n], 7, V1, V1, V2)

\* reader.read_and_parse(): the next line of the device, or None on a read
\* timeout
ReadTelemetry(t) ==
    /\ pc[t] = "read"
    /\ conn[t] = "open"
    /\ \/ /\ nparsed < Len(TelemetryLegs)
          /\ held' = [held EXCEPT ![t] = [seq |-> nparsed + 1,
                                          data |-> TelemetryRecord(nparsed + 1)]]
          /\ nparsed' = nparsed + 1
          /\ pc' = [pc EXCEPT ![t] = "put"]
       \/ /\ pc' = [pc EXCEPT ![t] = "loop"]
          /\ UNCHANGED << held, nparsed >>
    /\ UNCHANGED << running, data_queue, state, now, mainpc, windowOpen, animActive,
                    nthreads, conn, closes, cpc, merged, evicted, failed,
                    readsAfterStop, everStopped, sinceDeq, cleanBase, tickStart,
                    tickBase, prevState, config, chainLegs, mode, demo_running, dpc,
                    dleg, line, result, reports, nreads, seen, geom, angles, chain,
                    active_legs, config_data, loaded, lookup >>

(***************************************************************************)
(* The pipeline with a device that never runs out of records.  The steps   *)
(* are those of the reader thread and of _update_plot, without the         *)
(* bookkeeping that tells the records apart (every record has sequence     *)
(* number 0, and the histories stay empty).                                *)
(***************************************************************************)
\* reader.read_and_parse(): a record, or None on a read timeout
ReadForever(t) ==
    /\ pc[t] = "read"
    /\ conn[t] = "open"
    /\ \/ /\ \E r \in WireRecords :
                held' = [held EXCEPT ![t] = [seq |-> 0, data |-> r]]
          /\ pc' = [pc EXCEPT ![t] = "put"]
       \/ /\ pc' = [pc EXCEPT ![t] = "loop"]
          /\ UNCHANGED held
    /\ UNCHANGED << running, data_queue, state, now, mainpc, windowOpen, animActive,
                    nthreads, conn, closes, cpc, nparsed, merged, evicted, failed,
                    readsAfterStop, everStopped, sinceDeq, cleanBase, tickStart,
                    tickBase, prevState, config, chainLegs, mode, demo_running, dpc,
                    dleg, line, result, reports, nreads, seen, geom, angles, chain,
                    active_legs, config_data, loaded, lookup >>

\* self.data_queue.put_nowait(leg_data): appends, or raises queue.Full
PutForever(t) ==
    /\ pc[t] = "put"
    /\ IF Full(data_queue)
          THEN /\ pc' = [pc EXCEPT ![t] = "evict"]
               /\ UNCHANGED << data_queue, held >>
          ELSE /\ data_queue' = Append(data_queue, held[t])
               /\ held' = [held EXCEPT ![t] = NoItem]
               /\ pc' = [pc EXCEPT ![t] = "loop"]
    /\ UNCHANGED << running, state, now, mainpc, windowOpen, animActive, nthreads,
                    conn, closes, cpc, nparsed, merged, evicted, failed,
                    readsAfterStop, everStopped, sinceDeq, cleanBase, tickStart,
                    tickBase, prevState, config, chainLegs, mode, demo_running, dpc,
                    dleg, line, result, reports, nreads, seen, geom, angles, chain,
                    active_legs, config_data, loaded, lookup >>

\* the second put_nowait, inside the handler
PutAgainForever(t) ==
    /\ pc[t] = "reput"
    /\ IF Full(data_queue)
          THEN /\ pc' = [pc EXCEPT ![t] = "finally"]
               /\ held' = [held EXCEPT ![t] = NoItem]
               /\ UNCHANGED data_queue
          ELSE /\ data_queue' = Append(data_queue, held[t])
               /\ held' = [held EXCEPT ![t] = NoItem]
               /\ pc' = [pc EXCEPT ![t] = "loop"]
    /\ UNCHANGED << running, state, now, mainpc, windowOpen, animActive, nthreads,
                    conn, closes, cpc, nparsed, merged, evicted, failed,
                    readsAfterStop, everStopped, sinceDeq, cleanBase, tickStart,
                    tickBase, prevState, config, chainLegs, mode, demo_running, dpc,
                    dleg, line, result, reports, nreads, seen, geom, angles, chain,
                    active_legs, config_data, loaded, lookup >>

\* `leg_data = self.data_queue.get_nowait(); self.state.update_leg(leg_data)`,
\* or `except queue.Empty: break`
GetForever ==
    /\ cpc = "get"
    /\ IF data_queue = << >>
          THEN /\ cpc' = "draw"
               /\ UNCHANGED << state, data_queue >>
          ELSE /\ state' = update_leg(state, Head(data_queue).data, now)
               /\ data_queue' = Tail(data_queue)
               /\ cpc' = "check"
    /\ UNCHANGED << running, now, mainpc, windowOpen, animActive, nthreads, pc, held,
                    conn, closes, nparsed, merged, evicted, failed, readsAfterStop,
                    everStopped, sinceDeq, cleanBase, tickStart, tickBase, prevState,
                    config, chainLegs, mode, demo_running, dpc, dleg, line, result,
                    reports, nreads, seen, geom, angles, chain, active_legs,
                    config_data, loaded, lookup >>

(***************************************************************************)
(* Specifications.                                                         *)
(***************************************************************************)
\* one step of producer thread t
ProducerStep(t, maxp) ==
    \/ Connect(t)
    \/ LoopTest(t)
    \/ ReadAndParse(t, maxp)
    \/ PutNowait(t)
    \/ EvictOldest(t)
    \/ PutAgain(t)
    \/ Disconnect(t)

ConsumerStep ==
    \/ QueueEmptyTest
    \/ GetNowait
    \/ Draw

GuiStep ==
    \/ UpdatePlotBegin
    \/ KeyQuit
    \/ WindowClose
    \/ ShowReturns
    \/ JoinReturns

\* the program as main() runs it: one start_visualization() on the instance
Next ==
    \/ StartVisualization
    \/ GuiStep
    \/ ConsumerStep
    \/ \E t \in Threads : ProducerStep(t, MaxParsed)

Spec == Init /\ [][Next]_vars

\* the same pipeline, every producer thread scheduled fairly
FairSpec ==
    /\ Init
    /\ [][Next]_vars
    /\ \A t \in Threads : WF_vars(ProducerStep(t, MaxParsed))

\* one step of demo mode
DemoStep ==
    \/ StartDemo
    \/ SimLoopTest
    \/ SimPut(MaxDemoParsed)
    \/ SimSleep
    \/ StopDemo
    \/ \E t \in Threads : DemoReaderTest(t) \/ DemoReaderSleep(t)

\* live mode or demo mode, as Init chose
NextModes ==
    \/ Next
    \/ DemoStep

SpecModes == InitModes /\ [][NextModes]_vars

\* the instance as an object whose owner may call its methods again
NextApi ==
    \/ Next
    \/ StartVisualizationAgain
    \/ StopVisualization

SpecApi == Init /\ [][NextApi]_vars

\* parse_line on its own
NextParse == ParseCall

SpecParse == Init /\ [][NextParse]_vars

\* the pipeline with the lines the reader thread reads: fewer lines than the queue
\* holds, and no stop request
NextLines ==
    \/ StartVisualization
    \/ UpdatePlotBegin
    \/ ConsumerStep
    \/ \E t \in Threads : Connect(t) \/ LoopTest(t) \/ ReadLineAndParse(t) \/ PutNowait(t)

SpecLines == Init /\ [][NextLines]_vars

\* HexapodState alone
NextMerge ==
    \/ MergeAny
    \/ ClockTick

SpecMerge == Init /\ [][NextMerge]_vars

(***************************************************************************)
(* Properties.                                                             *)
(***************************************************************************)
MergedTags == Tags(merged)

\* the sequence numbers passed to update_leg by the current _update_plot
TickMerged == SubSeq(MergedTags, tickBase + 1, Len(MergedTags))

IsPrefix(s, u) == Len(s) <= Len(u) /\ SubSeq(u, 1, Len(s)) = s

NotEvicted(n) == n \notin evicted

InFlight == { held[t].seq : t \in Threads } \ {0}

NoEnqueueInProgress == \A t \in Threads : pc[t] \notin {"evict", "reput"}

\* C1: whenever the overflow handling of a producer ends (put_nowait had raised
\* queue.Full for its record), that record is in the queue: the new record is
\* never discarded.
C1_OverflowAdmitsNewRecord ==
    [][\A t \in Threads :
          (pc[t] \in {"evict", "reput"} /\ pc'[t] \notin {"evict", "reput"})
              => held[t] \in Range(data_queue')]_vars

\* C2: after more than QueueCap records were enqueued with no consumer dequeue
\* in between, the queue holds exactly the last QueueCap of them, in order.
C2_DropOldestKeepsLastC ==
    (cleanBase /\ NoEnqueueInProgress /\ Len(sinceDeq) > QueueCap)
        => Tags(data_queue) = LastN(QueueCap, sinceDeq)

C2_Witness ==
    /\ cleanBase
    /\ NoEnqueueInProgress
    /\ Len(sinceDeq) > QueueCap
    /\ evicted # {}
    /\ Len(data_queue) = QueueCap

\* C3: the queue never holds more than QueueCap records, and a producer inside
\* its enqueue step can always take that step, whatever the consumer does.
C3_QueueBoundedNonBlocking ==
    /\ Len(data_queue) \in 0..QueueCap
    /\ \A t \in Threads :
          pc[t] \in {"put", "evict", "reput"}
              => ENABLED (PutNowait(t) \/ EvictOldest(t) \/ PutAgain(t))

C3_Witness ==
    /\ Len(data_queue) = QueueCap
    /\ \E t \in Threads : pc[t] = "evict"

\* C4: once a read of the transport has failed, the producer attempts no further
\* read and enqueues nothing more.
C4_ReadFailureStopsProducer ==
    \A t \in Threads : failed[t] => pc[t] \notin {"read", "put", "evict", "reput"}

C6_StoppedIsTerminal ==
    [][(everStopped /\ ~running) => (~running' /\ nthreads' = nthreads)]_vars

\* C7: records are merged in the order they were parsed, and every parsed record
\* that is not merged is evicted by the drop-oldest policy (or still on its way).
C7_MergedInParseOrder ==
    \A i, j \in 1..Len(merged) : i < j => merged[i].seq < merged[j].seq

C7_MergeOrderAndLoss ==
    /\ C7_MergedInParseOrder
    /\ \A n \in 1..nparsed :
          n \notin Range(MergedTags)
              => n \in evicted \cup Range(Tags(data_queue)) \cup InFlight

\* C8 (as stated): when the drain loop of an invocation ends, every record that
\* was queued when the invocation began has been merged by it, in order.
C8_DrainsAllQueuedAtStart ==
    cpc = "draw" => IsPrefix(tickStart, TickMerged)

\* C8 (amended): when the drain loop of an invocation ends, every record that was
\* queued when the invocation began and that no producer evicted has been merged
\* by it, in order; no record is merged twice; the consumer never waits.
C8_DrainsAllNotEvicted ==
    /\ cpc = "draw" => IsPrefix(SelectSeq(tickStart, NotEvicted), TickMerged)
    /\ \A i, j \in 1..Len(merged) : i # j => merged[i].seq # merged[j].seq
    /\ cpc # "idle" => ENABLED (QueueEmptyTest \/ GetNowait \/ Draw)

C8_Witness ==
    /\ cpc = "draw"
    /\ Len(tickStart) >= 2
    /\ \E i \in 1..Len(tickStart) : tickStart[i] \in evicted
    /\ Len(TickMerged) >= 2

\* C9: the three maps hold entries exactly for the leg indices merged so far, and
\* each entry is the corresponding field of the last record merged for that leg.
LastFor(k) ==
    LET I == { i \in 1..Len(merged) : merged[i].data.leg_number = k }
    IN  merged[CHOOSE i \in I : \A j \in I : j <= i].data

MergedLegs == { merged[i].data.leg_number : i \in 1..Len(merged) }

C9_LastWriteWins ==
    /\ DOMAIN state.leg_positions = MergedLegs
    /\ DOMAIN state.leg_targets = MergedLegs
    /\ DOMAIN state.leg_angles = MergedLegs
    /\ \A k \in MergedLegs :
          /\ state.leg_positions[k] = LastFor(k).body_xyz
          /\ state.leg_targets[k] = LastFor(k).leg_xyz
          /\ state.leg_angles[k] = LastFor(k).leg_angles

C9_Witness ==
    /\ Len(merged) = 3
    /\ merged[1].data.leg_number = merged[3].data.leg_number
    /\ merged[2].data.leg_number # merged[3].data.leg_number
    /\ merged[1].data.body_xyz # merged[3].data.body_xyz
    /\ merged[1].data.leg_xyz # merged[3].data.leg_xyz
    /\ merged[1].data.leg_angles # merged[3].data.leg_angles

\* C10: merging a record a second time right after merging it leaves the three
\* maps as the first merge left them.
C10_MergeIdempotent ==
    /\ (Len(merged) >= 2 /\ merged[Len(merged)].data = merged[Len(merged) - 1].data)
          => Observable(state) = Observable(prevState)
    /\ \A r \in MergeRecords :
          Observable(update_leg(update_leg(state, r, now), r, MaxClock))
              = Observable(update_leg(state, r, now))

C10_Witness ==
    /\ Len(merged) = 3
    /\ merged[3].data = merged[2].data
    /\ merged[1].data.leg_number = merged[2].data.leg_number
    /\ merged[1].data # merged[2].data
    /\ state.timestamp # prevState.timestamp

\* the record passed to the last update_leg
LastMerged == merged[Len(merged)].data

LiveProducers == { t \in Threads : pc[t] \in {"loop", "read", "put", "evict", "reput"} }

\* C12: the state changes only in a step in which the consumer, inside
\* _update_plot, merges the record it has just dequeued; no step of a reader
\* thread or of the simulation thread changes it, in live and in demo mode.
C12_OnlyConsumerWritesState ==
    [][state' # state =>
        /\ cpc = "get"
        /\ cpc' = "check"
        /\ pc' = pc
        /\ dpc' = dpc
        /\ Len(merged') = Len(merged) + 1
        /\ state' = update_leg(state, merged'[Len(merged')].data, now)]_vars

C12_Witness ==
    /\ mode = "demo"
    /\ dpc = "put"
    /\ data_queue # << >>
    /\ Len(merged) >= 2
    /\ state # EmptyState

\* C13: at most one thread is enqueueing records into the queue of the instance
\* and at most one consumer invocation is draining it.
C13_OneProducerOneConsumer ==
    /\ Cardinality(LiveProducers) <= 1
    /\ cpc \in {"idle", "check", "get", "draw"}

\* the five telemetry fields of a record
Telemetry(d) ==
    << d.leg_number, d.timestamp, d.body_xyz, d.leg_xyz, d.leg_angles >>

\* every record parsed so far is on its way, queued or merged
AllAccountedFor ==
    \A n \in 1..nparsed : n \in InFlight \cup Range(Tags(data_queue)) \cup Range(MergedTags)

\* C14: a grammar line for a leg outside 0-5 gives a record without
\* configuration and without an error report, the record is enqueued and merged
\* like any other (its entry is stored in the state), and no render pass computes
\* a joint chain for a leg outside 0-5.
C14_OutOfRangeLegStoredNotDrawn ==
    /\ [](/\ chainLegs \subseteq LegIds
          /\ AllAccountedFor
          /\ \A i \in 1..Len(merged) : merged[i].data.leg_number \in DOMAIN state.leg_angles
          /\ \A i \in 1..Len(merged) :
                merged[i].data.leg_number \notin LegIds
                    => merged[i].data.leg_config = NoConfig)
    /\ [][(nreads' = nreads + 1 /\ line' = LineOf(Sample7)) =>
            /\ result' # NoData
            /\ Telemetry(result') = Telemetry(ValuesOf(Sample7))
            /\ result'.leg_config = NoConfig
            /\ reports' = reports
            /\ \E t \in Threads : pc'[t] = "put" /\ held'[t].data = result']_vars

C14_Witness ==
    /\ 7 \in DOMAIN state.leg_angles
    /\ 0 \in DOMAIN state.leg_angles
    /\ cpc = "idle"
    /\ chainLegs = {0}

C16_BlankAndNoiseSkipped ==
    /\ [][(nreads' = nreads + 1 /\ line' \in BlankLines \cup NoiseLines) =>
            /\ result' = NoData
            /\ reports' = reports
            /\ data_queue' = data_queue
            /\ held' = held
            /\ nparsed' = nparsed
            /\ \A t \in Threads : pc[t] = "read" => pc'[t] = "loop"]_vars
    /\ [](/\ \A i \in 1..Len(data_queue) : data_queue[i].data # NoData
          /\ \A i \in 1..Len(merged) : merged[i].data # NoData
          /\ \A t \in Threads : pc[t] = "put" => held[t].data # NoData)

C16_Witness ==
    /\ nreads >= 2
    /\ line \in BlankLines
    /\ result = NoData
    /\ merged # << >>
    /\ \E t \in Threads : pc[t] = "read"

\* the line, trimmed, is an instance of the grammar and nothing else
ExactInstance(l) == PatternMatch(LineStrip(l)) /\ LineStrip(l).tail = << >>

\* C17: parse_line returns a record only for a line that, trimmed, is exactly an
\* instance of the grammar.
C17_RecordOnlyForExactInstance ==
    (nreads >= 1 /\ result # NoData) => ExactInstance(line)

\* a group of the matched line that int() or float() does not convert
Unconvertible(l) ==
    LET g == Groups(LineStrip(l))
    IN  \/ \E i \in 1..2 : ~IntConvertible(g[i])
        \/ \E i \in 3..11 : ~FloatConvertible(g[i])

\* C18: when a line matches the pattern but one of its numbers cannot be
\* converted, parse_line returns no record and reports the failure, no exception
\* reaches the reader thread's loop, and the thread goes on to read the next line.
C18_ConversionFailureReported ==
    [][(nreads' = nreads + 1 /\ line' \in WireLines
           /\ PatternMatch(LineStrip(line')) /\ Unconvertible(line')) =>
            /\ result' = NoData
            /\ reports' = reports + 1
            /\ data_queue' = data_queue
            /\ \A t \in Threads : pc[t] = "read" => pc'[t] = "loop"]_vars

C18_Witness ==
    /\ line = LongLine
    /\ reports = 1
    /\ result = NoData
    /\ nreads = 2
    /\ \E t \in Threads : pc[t] = "read"

NextChain == ComputeChain

SpecChain == InitChain /\ [][NextChain]_vars

\* the reference chain: the direction is the unit vector at yaw plus the
\* effective coxa angle; the tibia is pitched by femur plus tibia
RefEffective(i) == angles[i] - geom.joint_angle_offsets[i]

RefDir == << Cos(geom.rotation + RefEffective(1)), Sin(geom.rotation + RefEffective(1)) >>

RefCoxaEnd ==
    << geom.position[1] + RefDir[1] * geom.link_lengths[1],
       geom.position[2] + RefDir[2] * geom.link_lengths[1],
       geom.position[3] >>

RefFemurEnd ==
    << RefCoxaEnd[1] + RefDir[1] * geom.link_lengths[2] * Cos(RefEffective(2)),
       RefCoxaEnd[2] + RefDir[2] * geom.link_lengths[2] * Cos(RefEffective(2)),
       RefCoxaEnd[3] + geom.link_lengths[2] * Sin(RefEffective(2)) >>

RefTibiaEnd ==
    << RefFemurEnd[1] + RefDir[1] * geom.link_lengths[3]
                            * Cos(RefEffective(2) + RefEffective(3)),
       RefFemurEnd[2] + RefDir[2] * geom.link_lengths[3]
                            * Cos(RefEffective(2) + RefEffective(3)),
       RefFemurEnd[3] + geom.link_lengths[3] * Sin(RefEffective(2) + RefEffective(3)) >>

\* C20: for every leg geometry with coxa, femur and tibia lengths and every raw
\* angle triple, the computed joint chain is the reference chain: effective
\* angle = raw - offset, direction = yaw rotated by the effective coxa angle,
\* coxa end at the attachment height, femur pitched by its effective angle,
\* tibia pitched by the sum of the effective femur and tibia angles.
C20_ChainEqualsReference ==
    (chain # << >> /\ Len(geom.link_lengths) = 3) =>
        /\ chain.coxa_end = RefCoxaEnd
        /\ chain.femur_end = RefFemurEnd
        /\ chain.tibia_end = RefTibiaEnd

\* a chain was computed for a leg with non-zero offsets, a rotated mounting,
\* a coxa of positive length and femur and tibia both pitched
C20_Witness ==
    /\ chain # << >>
    /\ Len(geom.link_lengths) = 3
    /\ geom.link_lengths[1] > 0
    /\ geom.rotation % 4 # 0
    /\ geom.joint_angle_offsets # << 0, 0, 0 >>
    /\ \A i \in 1..3 : RefEffective(i) % 4 # 0
    /\ chain.tibia_end[3] # chain.femur_end[3]

\* the configuration loader on its own
NextConfig ==
    \/ LoadConfig
    \/ GetLegConfig

SpecConfig == InitConfig /\ [][NextConfig]_vars

\* the unit vector of the mounting direction
Yaw == << Cos(geom.rotation), Sin(geom.rotation) >>

Along(p, d) == << p[1] + d * Yaw[1], p[2] + d * Yaw[2], p[3] >>

\* C21: with all raw angles and all offsets zero, the coxa end is the attachment
\* point moved by the coxa length along the mounting direction, the femur end is
\* the coxa end moved by the femur length and the tibia end the femur end moved
\* by the tibia length along the same direction, all three at the height of the
\* attachment point; with a coxa of length zero the coxa end is the attachment
\* point.
C21_ZeroAnglesStraightChain ==
    (/\ chain # << >>
     /\ angles = << 0, 0, 0 >>
     /\ geom.joint_angle_offsets = << 0, 0, 0 >>) =>
        /\ chain.coxa_end = Along(geom.position, geom.link_lengths[1])
        /\ chain.femur_end = Along(chain.coxa_end, geom.link_lengths[2])
        /\ chain.tibia_end = Along(chain.femur_end, geom.link_lengths[3])
        /\ geom.link_lengths[1] = 0 => chain.coxa_end = geom.position

\* the straight chain of a leg mounted a quarter turn off the X axis, its coxa
\* of positive length
C21_Witness ==
    /\ chain # << >>
    /\ angles = << 0, 0, 0 >>
    /\ geom.joint_angle_offsets = << 0, 0, 0 >>
    /\ geom.rotation = 1
    /\ geom.link_lengths[1] > 0
    /\ chain.tibia_end[2] = geom.position[2] + geom.link_lengths[1]
                               + geom.link_lengths[2] + geom.link_lengths[3]

\* the configuration file is valid apart from its link lengths: legs 0..5, three
\* offsets each
ValidButLinks ==
    /\ DOMAIN config_data.legs = LegIds
    /\ \A k \in LegIds : Len(config_data.legs[k].joint_angle_offsets) = 3

Positive(v, from) == \A i \in from..Len(v) : v[i] > 0

\* C22: a list of two positive link lengths << femur, tibia >> is loaded as
\* << 0, femur, tibia >> and a list of three positive link lengths is loaded as it
\* is; the joint chain of a leg loaded from the two-value form has a coxa of
\* length zero (its coxa end is the attachment point).
C22_LegacyLinksNormalized ==
    (loaded # NotLoaded /\ ValidButLinks) =>
        \A k \in LegIds :
            LET v == config_data.legs[k].link_lengths
            IN  /\ (Len(v) = 2 /\ Positive(v, 1)) =>
                      /\ loaded.ok
                      /\ loaded.value.legs[k].link_lengths = << 0, v[1], v[2] >>
                      /\ \A a \in AngleTriples :
                            joint_chain(loaded.value.legs[k], a).coxa_end
                               = loaded.value.legs[k].position
                /\ (Len(v) = 3 /\ Positive(v, 1)) =>
                      /\ loaded.ok
                      /\ loaded.value.legs[k].link_lengths = v

\* a file with two link lengths per leg has been loaded
C22_Witness ==
    /\ loaded # NotLoaded
    /\ ValidButLinks
    /\ config_data.legs[0].link_lengths = << 1, 2 >>
    /\ loaded.ok
    /\ loaded.value.legs[0].link_lengths = << 0, 1, 2 >>

\* C23: a coxa length of zero is valid: three link lengths << 0, femur, tibia >>
\* with femur and tibia positive are accepted and loaded unchanged, as is the
\* normalized form of a two-value list.
C23_ZeroCoxaAccepted ==
    (loaded # NotLoaded /\ ValidButLinks) =>
        \A k \in LegIds :
            LET v == config_data.legs[k].link_lengths
            IN  (Len(v) = 3 /\ v[1] = 0 /\ Positive(v, 2)) =>
                   /\ loaded.ok
                   /\ loaded.value.legs[k].link_lengths = v

\* C24: a configuration is accepted only if its leg key set is exactly 0..5
\* (one with a missing or an extra leg is rejected), and on an accepted
\* configuration get_leg_config returns a leg for each of 0..5 and raises
\* ValueError for every other index.
C24_ExactlyLegsZeroToFive ==
    /\ (loaded # NotLoaded /\ DOMAIN config_data.legs # LegIds) => ~loaded.ok
    /\ lookup # NoLookup =>
          /\ DOMAIN loaded.value.legs = LegIds
          /\ (lookup.result = ValueError) <=> (lookup.leg_id \notin LegIds)
          /\ lookup.leg_id \in LegIds =>
                lookup.result.position = config_data.legs[lookup.leg_id].position

\* get_leg_config has raised ValueError for leg 6 on an accepted configuration
C24_Witness ==
    /\ loaded # NotLoaded
    /\ loaded.ok
    /\ lookup.leg_id = NumLegs
    /\ lookup.result = ValueError

\* the pipeline in front of the renderer, never stopped
NextRender ==
    \/ StartVisualization
    \/ UpdatePlotBegin
    \/ ConsumerStep
    \/ \E t \in Threads : \/ Connect(t)
                          \/ LoopTest(t)
                          \/ ReadTelemetry(t)
                          \/ PutNowait(t)
                          \/ EvictOldest(t)
                          \/ PutAgain(t)

SpecRender == InitAnyConfig /\ [][NextRender]_vars

\* the same pipeline under the default configuration up to the moment the user
\* quits: what follows the closing of the window (plt.show() returning, the
\* join) is left out
NextRun ==
    \/ NextRender
    \/ KeyQuit
    \/ \E t \in Threads : Disconnect(t)

\* the FuncAnimation timer keeps firing while the window is open, and a callback
\* that has begun runs to its end
ConsumerTick ==
    \/ UpdatePlotBegin
    \/ ConsumerStep

\* that pipeline, the consumer scheduled fairly
FairConsumerSpec ==
    /\ Init
    /\ [][NextRun]_vars
    /\ WF_vars(ConsumerTick)

\* the legs of the last render pass that have a sample, under a configuration
\* that shows joints and has link lengths for them
Sampled == { i \in LegIds : i \in DOMAIN state.leg_angles }

Keys(s) == DOMAIN s.leg_positions

\* C29: the three per-leg maps of the state (body positions, leg targets, joint
\* angles) always have the same key set, and no step removes a key from it.
C29_SameKeysNeverRemoved ==
    /\ [](/\ DOMAIN state.leg_targets = Keys(state)
          /\ DOMAIN state.leg_angles = Keys(state))
    /\ [][Keys(state) \subseteq Keys(state')]_vars

\* records of several legs have been merged, the leg the robot does not have
\* among them
C29_Witness ==
    /\ NumLegs + 1 \in Keys(state)
    /\ Cardinality(Keys(state)) >= 3
    /\ DOMAIN state.leg_angles = Keys(state)

\* C30: the number of active legs in the title ("Active Legs: n/6") is between
\* 0 and 6 whatever records were merged, records of legs outside 0..5 included.
C30_ActiveLegsAtMostSix ==
    active_legs \in 0..NumLegs

\* C26: when the simulation enqueues a record onto a full queue, the record is
\* admitted at the tail of the queue and the oldest queued record is evicted:
\* the newest record is never dropped.
C26_DemoDropsOldest ==
    [][(dpc = "put" /\ nparsed' = nparsed + 1 /\ Full(data_queue)) =>
          /\ data_queue' # << >>
          /\ data_queue'[Len(data_queue')].seq = nparsed + 1
          /\ Head(data_queue).seq \notin Tags(data_queue')]_vars

\* the animation timer invokes the consumer
ConsumerInvoked == mainpc = "show" /\ windowOpen /\ animActive

Queued(n) == \E i \in 1..Len(data_queue) : data_queue[i].seq = n

Merged(n) == \E i \in 1..Len(merged) : merged[i].seq = n

\* C27: as long as the consumer keeps being invoked, every record in the queue
\* is eventually merged into the state or evicted by the overflow handling: no
\* record stays in the queue forever.
C27_QueuedEventuallyMerged ==
    \A n \in 1..Len(TelemetryLegs) :
        Queued(n) ~> (Merged(n) \/ n \in evicted \/ ~ConsumerInvoked)

\* a record that was queued has been merged while the consumer is still invoked,
\* another one having been evicted
C27_Witness ==
    /\ ConsumerInvoked
    /\ evicted # {}
    /\ \E n \in 1..Len(TelemetryLegs) : Merged(n) /\ n \notin evicted /\ ~Queued(n)

\* one step of the reader thread t and of the consumer when the device never
\* runs out of records
ProducerForever(t) ==
    \/ Connect(t)
    \/ LoopTest(t)
    \/ ReadForever(t)
    \/ PutForever(t)
    \/ EvictOldest(t)
    \/ PutAgainForever(t)

ConsumerForever ==
    \/ UpdatePlotBegin
    \/ QueueEmptyTest
    \/ GetForever
    \/ Draw

NextForever ==
    \/ StartVisualization
    \/ ConsumerForever
    \/ \E t \in Threads : ProducerForever(t)

\* that pipeline, the consumer and every reader thread scheduled fairly
FairForeverSpec ==
    /\ Init
    /\ [][NextForever]_vars
    /\ WF_vars(ConsumerForever)
    /\ \A t \in Threads : WF_vars(ProducerForever(t))

\* C28: every invocation of _update_plot leaves its drain loop and goes on to
\* drawing, also while the reader thread keeps enqueueing records.
C28_DrainTerminates ==
    (cpc = "check") ~> (cpc = "draw")

====
